---- MODULE Spec2Model ----
(***************************************************************************)
(* One-time authentication tokens of api/app.py: create_auth_token,        *)
(* verify_and_consume_token, cleanup_expired_tokens and the cleanup        *)
(* scheduler, run against one shared auth_tokens table.                    *)
(*                                                                         *)
(* Time is counted in minutes.  A handler thread takes one step per        *)
(* request it sends to the table, so calls interleave at the granularity   *)
(* of single store requests.  A request either is answered or raises; a    *)
(* request that raises leaves the table as it was.                         *)
(***************************************************************************)
EXTENDS Integers, FiniteSets, Sequences, TLC

\* ---------------------------------------------------------------- bounds
NProcs == 2
MaxTime == 2

\* time.sleep(6 * 60 * 60) between two cleanups, scaled to the model's clock
CleanupPeriod == 1

\* the values of secrets.token_hex(32) the model draws from
Tokens == {"3f9a", "c07e"}
Procs == 1..NProcs
Purposes == {"balance-reveal", "login"}
\* the arguments create_auth_token is called with: user_id (a string or an
\* integer), purpose, expires_in_minutes
IssueArgs ==
    { <<<<"str", "user-42">>, "balance-reveal", 1>>,
      <<<<"int", 7>>, "login", 1>>,
      <<<<"str", "user-9">>, "login", -1>> }

\* SQL NULL of the used_at column; a set value is <<timestamp>>
Null == <<>>

VARIABLES
    now,            \* the wall clock read by datetime.now()
    supabase,       \* the module-level client handle is set (not None)
    collisions,     \* the random source may give a token it gave before
    given,          \* the tokens the random source has given so far
    auth_tokens,    \* the rows of the auth_tokens table
    pc,             \* per handler thread: "idle", or "update" once its select passed
    tok, purp,      \* per handler thread: the arguments of its call
    cur,            \* per handler thread: current_time
    uid,            \* per handler thread: user_id, from result.data[0]
    late,           \* history, per handler thread: its call began after a
                    \* call on the same token had returned success
    wins,           \* history: number of calls that returned success, per token
    mode,           \* how the process is started: "main" or "wsgi"
    wake,           \* the cleanup threads of the process, one entry per
                    \* thread: <<when its time.sleep ends>>, or NoWorker
                    \* when the process has no cleanup thread
    last            \* history: the latest operation and what it gave its caller

env == <<now, supabase, collisions, mode>>
table == <<given, auth_tokens>>
calls == <<pc, tok, purp, cur, uid, late>>
vars == <<env, table, calls, wins, wake, last>>

\* ------------------------------------------------------------ the table
\* slip: user_id is stored as it came, without str()
StrRaw(user_id) == user_id

\* str(user_id)
Str(user_id) ==
    IF user_id[1] = "int" THEN <<"str", ToString(user_id[2])>> ELSE user_id

\* slip: the lifetime is subtracted
ExpiresAtBefore(t, expires_in_minutes) == t - expires_in_minutes

\* datetime.now() + timedelta(minutes=expires_in_minutes)
ExpiresAt(t, expires_in_minutes) == t + expires_in_minutes

\* the row create_auth_token inserts; used_at is left to its default
Row(token, user_id, purpose, expires_in_minutes) ==
    [token |-> token, user_id |-> Str(user_id), purpose |-> purpose,
     expires_at |-> ExpiresAt(now, expires_in_minutes), used_at |-> Null]

\* get_supabase_client(): the handle, or None when it was never initialised
get_supabase_client == supabase

\* the values secrets.token_hex(32) can give
generate_secure_token == IF collisions THEN Tokens ELSE Tokens \ given

\* slip: the .eq('purpose', ..) filter is missing
SelectAnyPurpose(rows, token, purpose, current_time) ==
    {r \in rows : /\ r.token = token
                  /\ r.expires_at > current_time
                  /\ r.used_at = Null}

\* slip: the .gt('expires_at', ..) filter is missing
SelectAnyExpiry(rows, token, purpose, current_time) ==
    {r \in rows : /\ r.token = token
                  /\ r.purpose = purpose
                  /\ r.used_at = Null}

\* slip: .gte('expires_at', ..) in place of .gt
SelectNotBefore(rows, token, purpose, current_time) ==
    {r \in rows : /\ r.token = token
                  /\ r.purpose = purpose
                  /\ r.expires_at >= current_time
                  /\ r.used_at = Null}

\* .select('user_id').eq('token', ..).eq('purpose', ..).gt('expires_at', ..)
\* .is_('used_at', 'null')
SelectValid(rows, token, purpose, current_time) ==
    {r \in rows : /\ r.token = token
                  /\ r.purpose = purpose
                  /\ r.expires_at > current_time
                  /\ r.used_at = Null}

\* slip: the update matches the row by user_id, so it matches none
UpdateNone(rows, token, current_time) ==
    {IF r.user_id = token THEN [r EXCEPT !.used_at = <<current_time>>] ELSE r :
        r \in rows}

\* slip: the .eq('token', ..) filter of the update is missing
UpdateAll(rows, token, current_time) ==
    {[r EXCEPT !.used_at = <<current_time>>] : r \in rows}

\* .update({'used_at': current_time}).eq('token', token)
UpdateUsed(rows, token, current_time) ==
    {IF r.token = token THEN [r EXCEPT !.used_at = <<current_time>>] ELSE r :
        r \in rows}

\* slip: .lte('expires_at', ..) in place of .lt
ExpiredOrNow(rows, current_time) == {r \in rows : r.expires_at <= current_time}

\* slip: the delete removes one matching row per request
ExpiredOne(rows, current_time) ==
    IF {r \in rows : r.expires_at < current_time} = {} THEN {}
    ELSE {CHOOSE r \in rows : r.expires_at < current_time}

\* slip: the delete also filters .is_('used_at', 'null')
ExpiredPending(rows, current_time) ==
    {r \in rows : r.expires_at < current_time /\ r.used_at = Null}

\* the rows matched by .delete().lt('expires_at', current_time)
Expired(rows, current_time) == {r \in rows : r.expires_at < current_time}

\* what verify_and_consume_token returns
Invalid == [valid |-> FALSE]
Valid(user_id) == [valid |-> TRUE, userId |-> user_id]

\* what create_auth_token gives its caller: an exception, None or the token
Raised == [kind |-> "raised"]
None == [kind |-> "none"]
Token(t) == [kind |-> "token", token |-> t]

\* the locals of a handler thread that is in no call
NoUser == <<"str", "">>
NoToken == ""

Nothing == [op |-> "none"]

\* ------------------------------------------------------------- the state
\* no cleanup thread was started
NoWorker == <<>>

\* slip: the loop runs the cleanup before its first sleep
start_cleanup_schedulerAtOnce == <<now>>

\* start_cleanup_scheduler(): one thread, which begins with a full sleep
start_cleanup_scheduler == <<now + CleanupPeriod>>

\* what the process holds once it is up: the __main__ block has run when
\* app.py was run directly, and has not when index.py imported it
Startup ==
    /\ pc' = [p \in Procs |-> "idle"]
    /\ tok' = [p \in Procs |-> NoToken]
    /\ purp' = [p \in Procs |-> "login"]
    /\ cur' = [p \in Procs |-> 0]
    /\ uid' = [p \in Procs |-> NoUser]
    /\ late' = [p \in Procs |-> FALSE]
    /\ wake' = IF mode = "main" THEN start_cleanup_scheduler ELSE NoWorker
    /\ last' = Nothing

Start(c) ==
    /\ now = 0
    /\ supabase \in BOOLEAN
    /\ collisions = c
    /\ mode \in {"main", "wsgi"}
    /\ given = {}
    /\ auth_tokens = {}
    /\ pc = [p \in Procs |-> "idle"]
    /\ tok = [p \in Procs |-> NoToken]
    /\ purp = [p \in Procs |-> "login"]
    /\ cur = [p \in Procs |-> 0]
    /\ uid = [p \in Procs |-> NoUser]
    /\ late = [p \in Procs |-> FALSE]
    /\ wins = [t \in Tokens |-> 0]
    /\ wake = IF mode = "main" THEN start_cleanup_scheduler ELSE NoWorker
    /\ last = Nothing

Init == Start(FALSE)

\* ----------------------------------------------------------- environment
Tick ==
    /\ now < MaxTime
    /\ now' = now + 1
    /\ last' = Nothing
    /\ UNCHANGED <<supabase, collisions, mode, table, calls, wins, wake>>

\* the server process is stopped and started again; calls in flight are lost
Restart ==
    /\ Startup
    /\ UNCHANGED <<env, table, wins>>

\* ------------------------------------------------------ create_auth_token
\* the log entry of a create_auth_token call
Issued(user_id, purpose, expires_in_minutes, ret, err) ==
    [op |-> "issue", user_id |-> user_id, purpose |-> purpose,
     ttl |-> expires_in_minutes, ret |-> ret, err |-> err]

create_auth_token(user_id, purpose, expires_in_minutes) ==
    /\ IF ~get_supabase_client
       THEN \* raise Exception("Supabase client not available")
            /\ last' = Issued(user_id, purpose, expires_in_minutes, Raised,
                              "no_client")
            /\ UNCHANGED table
       ELSE \E token \in generate_secure_token, answered \in BOOLEAN :
            /\ given' = given \cup {token}
            /\ \* token is the table's lookup key: a second row with it is refused
               IF answered /\ token \notin {r.token : r \in auth_tokens}
               THEN /\ auth_tokens' = auth_tokens \cup
                           {Row(token, user_id, purpose, expires_in_minutes)}
                    /\ last' = Issued(user_id, purpose, expires_in_minutes,
                                      Token(token), "none")
               ELSE \* the insert raised: logged, None returned
                    /\ last' = Issued(user_id, purpose, expires_in_minutes, None,
                                      IF answered THEN "collision" ELSE "insert")
                    /\ UNCHANGED auth_tokens
    /\ UNCHANGED <<env, calls, wins, wake>>

Issue == \E a \in IssueArgs : create_auth_token(a[1], a[2], a[3])

\* ----------------------------------------------- verify_and_consume_token
\* the log entry of a call that has returned: its arguments, its
\* current_time, what it returned, where a request of it failed, whether it
\* began after a success on its token, and the issue it followed at once
Returned(token, purpose, at, ret, err, after, issued) ==
    [op |-> "verify", token |-> token, purpose |-> purpose, at |-> at,
     ret |-> ret, err |-> err, late |-> after, issued |-> issued]

\* the issue this call follows at once, if it redeems that issue's token
\* for that issue's purpose: <<user_id, expires_in_minutes>>
Follows(token, purpose) ==
    IF /\ last.op = "issue"
       /\ last.ret = Token(token)
       /\ last.purpose = purpose
    THEN <<last.user_id, last.ttl>>
    ELSE <<>>

\* slip: the rejection tells the caller that the token is unknown
VerifySelectTelling(p, token, purpose) ==
    /\ pc[p] = "idle"
    /\ IF ~get_supabase_client
       THEN /\ last' = Returned(token, purpose, now, Invalid, "no_client",
                                wins[token] > 0, Follows(token, purpose))
            /\ UNCHANGED calls
       ELSE \E answered \in BOOLEAN :
            IF ~answered
            THEN /\ last' = Returned(token, purpose, now, Invalid, "select",
                                     wins[token] > 0, Follows(token, purpose))
                 /\ UNCHANGED calls
            ELSE LET data == SelectValid(auth_tokens, token, purpose, now) IN
                 IF data # {}
                 THEN /\ pc' = [pc EXCEPT ![p] = "update"]
                      /\ tok' = [tok EXCEPT ![p] = token]
                      /\ purp' = [purp EXCEPT ![p] = purpose]
                      /\ cur' = [cur EXCEPT ![p] = now]
                      /\ uid' = [uid EXCEPT ![p] =
                                    (CHOOSE r \in data : TRUE).user_id]
                      /\ late' = [late EXCEPT ![p] = wins[token] > 0]
                      /\ last' = [op |-> "select", proc |-> p,
                                  issued |-> Follows(token, purpose)]
                 ELSE /\ last' = Returned(token, purpose, now,
                                 IF \E r \in auth_tokens : r.token = token
                                 THEN Invalid
                                 ELSE [valid |-> FALSE, error |-> "unknown token"],
                                 "none", wins[token] > 0, Follows(token, purpose))
                      /\ UNCHANGED calls
    /\ UNCHANGED <<env, table, wins, wake>>

\* entry, client check, current_time and the select request
VerifySelect(p, token, purpose) ==
    /\ pc[p] = "idle"
    /\ IF ~get_supabase_client
       THEN /\ last' = Returned(token, purpose, now, Invalid, "no_client",
                                wins[token] > 0, Follows(token, purpose))
            /\ UNCHANGED calls
       ELSE \E answered \in BOOLEAN :
            IF ~answered
            THEN \* the select raised
                 /\ last' = Returned(token, purpose, now, Invalid, "select",
                                     wins[token] > 0, Follows(token, purpose))
                 /\ UNCHANGED calls
            ELSE LET data == SelectValid(auth_tokens, token, purpose, now) IN
                 IF data # {}
                 THEN /\ pc' = [pc EXCEPT ![p] = "update"]
                      /\ tok' = [tok EXCEPT ![p] = token]
                      /\ purp' = [purp EXCEPT ![p] = purpose]
                      /\ cur' = [cur EXCEPT ![p] = now]
                      /\ uid' = [uid EXCEPT ![p] =
                                    (CHOOSE r \in data : TRUE).user_id]
                      /\ late' = [late EXCEPT ![p] = wins[token] > 0]
                      /\ last' = [op |-> "select", proc |-> p,
                                  issued |-> Follows(token, purpose)]
                 ELSE /\ last' = Returned(token, purpose, now, Invalid, "none",
                                          wins[token] > 0,
                                          Follows(token, purpose))
                      /\ UNCHANGED calls
    /\ UNCHANGED <<env, table, wins, wake>>

\* slip: the row is marked although the call goes on to return Invalid
VerifyUpdateMarked(p) ==
    /\ pc[p] = "update"
    /\ pc' = [pc EXCEPT ![p] = "idle"]
    /\ tok' = [tok EXCEPT ![p] = NoToken]
    /\ purp' = [purp EXCEPT ![p] = "login"]
    /\ cur' = [cur EXCEPT ![p] = 0]
    /\ uid' = [uid EXCEPT ![p] = NoUser]
    /\ late' = [late EXCEPT ![p] = FALSE]
    /\ LET issued == IF last.op = "select" /\ last.proc = p
                     THEN last.issued ELSE <<>>
       IN  \E answered \in BOOLEAN :
           IF ~answered
           THEN \* the update raised
                /\ last' = Returned(tok[p], purp[p], cur[p], Invalid, "update",
                                    late[p], issued)
                /\ auth_tokens' = UpdateUsed(auth_tokens, tok[p], cur[p])
                /\ UNCHANGED wins
           ELSE /\ auth_tokens' = UpdateUsed(auth_tokens, tok[p], cur[p])
                /\ wins' = [wins EXCEPT ![tok[p]] = @ + 1]
                /\ last' = Returned(tok[p], purp[p], cur[p], Valid(uid[p]),
                                    "none", late[p], issued)
    /\ UNCHANGED <<env, given, wake>>

\* slip: the update writes a datetime.now() read again after the select
VerifyUpdateNow(p) ==
    /\ pc[p] = "update"
    /\ pc' = [pc EXCEPT ![p] = "idle"]
    /\ tok' = [tok EXCEPT ![p] = NoToken]
    /\ purp' = [purp EXCEPT ![p] = "login"]
    /\ cur' = [cur EXCEPT ![p] = 0]
    /\ uid' = [uid EXCEPT ![p] = NoUser]
    /\ late' = [late EXCEPT ![p] = FALSE]
    /\ LET issued == IF last.op = "select" /\ last.proc = p
                     THEN last.issued ELSE <<>>
       IN  \E answered \in BOOLEAN :
           IF ~answered
           THEN \* the update raised
                /\ last' = Returned(tok[p], purp[p], cur[p], Invalid, "update",
                                    late[p], issued)
                /\ UNCHANGED <<auth_tokens, wins>>
           ELSE /\ auth_tokens' = UpdateUsed(auth_tokens, tok[p], now)
                /\ wins' = [wins EXCEPT ![tok[p]] = @ + 1]
                /\ last' = Returned(tok[p], purp[p], cur[p], Valid(uid[p]),
                                    "none", late[p], issued)
    /\ UNCHANGED <<env, given, wake>>

\* the update request and the return that follows it
VerifyUpdate(p) ==
    /\ pc[p] = "update"
    /\ pc' = [pc EXCEPT ![p] = "idle"]
    /\ tok' = [tok EXCEPT ![p] = NoToken]
    /\ purp' = [purp EXCEPT ![p] = "login"]
    /\ cur' = [cur EXCEPT ![p] = 0]
    /\ uid' = [uid EXCEPT ![p] = NoUser]
    /\ late' = [late EXCEPT ![p] = FALSE]
    /\ LET issued == IF last.op = "select" /\ last.proc = p
                     THEN last.issued ELSE <<>>
       IN  \E answered \in BOOLEAN :
           IF ~answered
           THEN \* the update raised
                /\ last' = Returned(tok[p], purp[p], cur[p], Invalid, "update",
                                    late[p], issued)
                /\ UNCHANGED <<auth_tokens, wins>>
           ELSE /\ auth_tokens' = UpdateUsed(auth_tokens, tok[p], cur[p])
                /\ wins' = [wins EXCEPT ![tok[p]] = @ + 1]
                /\ last' = Returned(tok[p], purp[p], cur[p], Valid(uid[p]),
                                    "none", late[p], issued)
    /\ UNCHANGED <<env, given, wake>>

Verify ==
    \/ \E p \in Procs, t \in Tokens, q \in Purposes : VerifySelect(p, t, q)
    \/ \E p \in Procs : VerifyUpdate(p)

\* ------------------------------------------------------------ the cleanup
\* the log entry of a cleanup_expired_tokens run: where it failed, the
\* deleted_count it logged, and the deleted_count of the run right before it
\* when that run was answered
Cleaned(err, deleted_count) ==
    [op |-> "cleanup", err |-> err, deleted_count |-> deleted_count,
     before |-> IF last.op = "cleanup" /\ last.err = "none"
                THEN <<last.deleted_count>> ELSE <<>>]

cleanup_expired_tokens ==
    IF ~get_supabase_client
    THEN /\ last' = Cleaned("no_client", 0)
         /\ UNCHANGED auth_tokens
    ELSE \E answered \in BOOLEAN :
         IF ~answered
         THEN \* the delete raised: logged
              /\ last' = Cleaned("delete", 0)
              /\ UNCHANGED auth_tokens
         ELSE /\ auth_tokens' = auth_tokens \ Expired(auth_tokens, now)
              /\ last' = Cleaned("none", Cardinality(Expired(auth_tokens, now)))

\* slip: the exception leaves cleanup_expired_tokens and ends the thread
cleanup_workerDies ==
    /\ wake # NoWorker
    /\ now >= wake[1]
    /\ cleanup_expired_tokens
    /\ wake' = IF last'.err = "none" THEN <<now + CleanupPeriod>> ELSE NoWorker
    /\ UNCHANGED <<env, given, calls, wins>>

\* one iteration of cleanup_worker: the sleep has ended, the cleanup runs,
\* the next sleep begins
cleanup_worker ==
    /\ wake # NoWorker
    /\ now >= wake[1]
    /\ cleanup_expired_tokens
    /\ wake' = <<now + CleanupPeriod>>
    /\ UNCHANGED <<env, given, calls, wins>>

Next ==
    \/ Tick
    \/ Restart
    \/ Issue
    \/ Verify
    \/ cleanup_worker

Spec == Init /\ [][Next]_vars

\* the cleanup thread beside the callers of create_auth_token, which fill the
\* table it sweeps
NextUp ==
    \/ Tick
    \/ Issue
    \/ cleanup_worker

\* one life of the process, from its start on: the clock advances, and the
\* cleanup thread runs once its sleep has ended
SpecUp == Init /\ [][NextUp]_vars /\ WF_vars(Tick) /\ WF_vars(cleanup_worker)

\* the process serves the app that index.py imported: the __main__ block of
\* app.py has not run, so there is no cleanup thread
InitImported == Start(FALSE) /\ mode = "wsgi"

NextImported ==
    \/ Tick
    \/ Restart
    \/ Issue
    \/ Verify

\* the clock advances and the handlers keep being called and keep returning
SpecImported ==
    InitImported /\ [][NextImported]_vars /\ WF_vars(Tick) /\ WF_vars(Verify)

\* a token that lives across two instants of the clock
IssueLong == create_auth_token(<<"str", "user-42">>, "balance-reveal", 2)

NextLong ==
    \/ Tick
    \/ Restart
    \/ IssueLong
    \/ Verify
    \/ cleanup_worker

\* the token system with tokens that stay valid while the clock advances
SpecLong == Init /\ [][NextLong]_vars

\* the token system when secrets.token_hex may repeat a value
SpecCollide == Start(TRUE) /\ [][Next]_vars

\* cleanup_expired_tokens called on its own, by any caller at any moment
Sweep ==
    /\ cleanup_expired_tokens
    /\ UNCHANGED <<env, given, calls, wins, wake>>

NextSweep ==
    \/ Tick
    \/ Issue
    \/ Verify
    \/ Sweep

\* the handlers and the clock, with cleanup_expired_tokens run at will
SpecSweep == Init /\ [][NextSweep]_vars

\* ================================================================ claims
\* the rows of the table that carry a token
RowsOf(t) == {r \in auth_tokens : r.token = t}

\* a verify_and_consume_token call has just returned
Verified == last.op = "verify"

\* C1: for any single token, at most one verify_and_consume_token call
\* returns success, however the calls interleave.
C1_AtMostOneSuccess == \A t \in Tokens : wins[t] <= 1

\* C2: create_auth_token(subject, purpose, ttl) with ttl > 0, answered by
\* the store, followed at once by verify_and_consume_token(token, purpose)
\* with no request of it failing, returns success with the subject that was
\* passed to the issue (a string, as the caller boundary has it).
C2_IssueThenVerify ==
    ( /\ Verified
      /\ last.issued # <<>>
      /\ last.err = "none" )
    => \/ last.issued[2] <= 0
       \/ last.issued[1][1] # "str"
       \/ last.ret = [valid |-> TRUE, userId |-> last.issued[1]]

C2_Witness ==
    /\ Verified
    /\ last.issued # <<>>
    /\ last.err = "none"
    /\ last.issued[2] > 0
    /\ last.issued[1][1] = "str"
    /\ last.ret.valid

\* C3: a call that begins after a call on the same token has returned
\* success is rejected, whatever happened in between.
C3_SingleUse == (Verified /\ last.late) => last.ret = [valid |-> FALSE]

\* a second call for the right purpose, before expiry, on a row still there
C3_Witness ==
    /\ Verified
    /\ last.late
    /\ last.err = "none"
    /\ \E r \in RowsOf(last.token) :
          r.purpose = last.purpose /\ r.expires_at > last.at

\* C4: a call that names a purpose other than the one the token's row was
\* issued for is rejected, whatever the row's expiry and used_at.
C4_PurposeIsolation ==
    ( /\ Verified
      /\ \E r \in RowsOf(last.token) : r.purpose # last.purpose )
    => last.ret = [valid |-> FALSE]

\* the wrong purpose is the only thing wrong with the call
C4_Witness ==
    /\ Verified
    /\ last.err = "none"
    /\ \E r \in RowsOf(last.token) :
          /\ r.purpose # last.purpose
          /\ r.used_at = Null
          /\ r.expires_at > last.at

\* C5: a call made after the clock has passed the row's expires_at is
\* rejected, also when the row was never used and is still in the table.
C5_Expiry ==
    ( /\ Verified
      /\ \E r \in RowsOf(last.token) : r.expires_at < last.at )
    => last.ret = [valid |-> FALSE]

\* an unused row for the right purpose, issued with a negative ttl, not
\* yet removed by a cleanup
C5_Witness ==
    /\ Verified
    /\ last.err = "none"
    /\ \E r \in RowsOf(last.token) :
          /\ r.expires_at < 0
          /\ r.used_at = Null
          /\ r.purpose = last.purpose

\* the validity condition of the data model, for a call at time t
ValidFor(rows, token, purpose, t) ==
    \E r \in rows : /\ r.token = token
                    /\ r.used_at = Null
                    /\ r.expires_at > t
                    /\ r.purpose = purpose

\* C6: with no request failing, a call succeeds exactly when a row with the
\* token exists, is unused, expires strictly after now and has the purpose
\* asked for: the select passes exactly then, a call whose select did not
\* pass is rejected, and the update that follows a passed select returns
\* success.
C6_ValidIff ==
    [][ /\ \A p \in Procs :
              (pc[p] = "idle" /\ pc'[p] = "update")
              => ValidFor(auth_tokens, tok'[p], purp'[p], now)
        /\ (last'.op = "verify" /\ last'.err = "none" /\ ~last'.ret.valid)
              => ~ValidFor(auth_tokens, last'.token, last'.purpose, now)
        /\ \A p \in Procs :
              ( /\ pc[p] = "update"
                /\ pc'[p] = "idle"
                /\ last'.op = "verify"
                /\ last'.err = "none" )
              => last'.ret = [valid |-> TRUE, userId |-> uid[p]]
      ]_vars

\* a row that expires exactly now, otherwise valid, was rejected
C6_Witness ==
    /\ Verified
    /\ last.err = "none"
    /\ ~last.ret.valid
    /\ \E r \in RowsOf(last.token) :
          /\ r.expires_at = last.at
          /\ r.used_at = Null
          /\ r.purpose = last.purpose

\* C7: a call in which the store could not be reached (no client, or the
\* select or the update raised) does not return the invalid-token result.
C7_StorageFailureDistinct ==
    (Verified /\ last.err # "none") => last.ret # [valid |-> FALSE]

\* the root causes of a rejection, for the call that has just returned
NotFound == RowsOf(last.token) = {}
WrongPurpose == \E r \in RowsOf(last.token) : r.purpose # last.purpose
IsExpired == \E r \in RowsOf(last.token) : r.expires_at <= last.at
AlreadyUsed == \E r \in RowsOf(last.token) : r.used_at # Null

\* C8: whatever the root cause of a rejection (token not found, expired,
\* wrong purpose, already used), the caller gets one and the same value,
\* which carries nothing but valid = FALSE.
C8_InvalidIdentical ==
    ( /\ Verified
      /\ last.err = "none"
      /\ ~last.ret.valid
      /\ NotFound \/ WrongPurpose \/ IsExpired \/ AlreadyUsed )
    => last.ret = [valid |-> FALSE]

\* a rejection whose only cause is that the row was already used
C8_Witness ==
    /\ Verified
    /\ last.err = "none"
    /\ last.ret = [valid |-> FALSE]
    /\ AlreadyUsed
    /\ ~NotFound /\ ~WrongPurpose /\ ~IsExpired

\* C9: when the store cannot be reached (no client, or the insert raised)
\* create_auth_token surfaces a failure to its caller.
C9_IssueSurfacesFailure ==
    (last.op = "issue" /\ last.err # "none") => last.ret = Raised

\* C10: a cleanup whose delete is answered removes exactly the rows whose
\* expires_at is strictly less than now, used or not, and no other row.
C10_CleanupExact ==
    [][ (last'.op = "cleanup" /\ last'.err = "none")
        => /\ auth_tokens' = {r \in auth_tokens : r.expires_at >= now}
           /\ last'.deleted_count =
                 Cardinality({r \in auth_tokens : r.expires_at < now})
      ]_vars

\* a cleanup has removed a row that had been used and left a row that
\* expires exactly now
C10_Witness ==
    /\ last.op = "cleanup"
    /\ last.err = "none"
    /\ last.deleted_count >= 1
    /\ \E t \in Tokens : wins[t] > 0 /\ RowsOf(t) = {}
    /\ \E r \in auth_tokens : r.expires_at = now

\* C11: a cleanup_expired_tokens run that directly follows an answered run,
\* with no token issued and no clock advance between the two, deletes no
\* record and leaves the table as the first run left it
C11_Idempotent ==
    [][(/\ last.op = "cleanup" /\ last.err = "none"
        /\ last'.op = "cleanup" /\ last'.err = "none")
       => (auth_tokens' = auth_tokens /\ last'.deleted_count = 0)]_vars

\* a second run right after a run that deleted rows, with rows left
C11_Witness ==
    /\ last.op = "cleanup" /\ last.err = "none"
    /\ last.before # <<>> /\ last.before[1] >= 1
    /\ auth_tokens # {}

\* C12: a cleanup tick that fails (no client, or the delete raises) changes
\* no record and the worker goes back to sleep for one period; every tick,
\* failed or not, that is not at the end of the modelled time is followed
\* by a later tick
C12_LoopSurvives ==
    /\ [][(last'.op = "cleanup" /\ last'.err # "none")
          => (auth_tokens' = auth_tokens /\ wake' = <<now + CleanupPeriod>>)]_vars
    /\ \A n \in 0..(MaxTime - 1) :
          (last.op = "cleanup" /\ now = n) ~> (last.op = "cleanup" /\ now > n)

\* a tick whose delete raised has left a long-expired row in the table and
\* the worker asleep until one period later
C12_Witness ==
    /\ last.op = "cleanup" /\ last.err = "delete"
    /\ wake = <<now + CleanupPeriod>>
    /\ now = MaxTime
    /\ \E r \in auth_tokens : r.expires_at < now - CleanupPeriod

\* C13: a token whose pending row has expired is eventually out of the
\* pending state: its row is consumed or the sweeper has deleted it
C13_EventuallyLeaves ==
    \A t \in Tokens :
        (\E r \in RowsOf(t) : r.used_at = Null /\ r.expires_at < now)
            ~> (\A r \in RowsOf(t) : r.used_at # Null)

\* C14: a row is written once: no step changes the user_id, purpose or
\* expires_at of a row, and once used_at is set no step changes it again
C14_WriteOnce ==
    [][\A r \in auth_tokens : \A s \in auth_tokens' :
          s.token = r.token
          => /\ s.user_id = r.user_id
             /\ s.purpose = r.purpose
             /\ s.expires_at = r.expires_at
             /\ (r.used_at # Null => s.used_at = r.used_at)]_vars

\* C15: a create_auth_token call whose generated token is already the token
\* of a row in the table generates another token and returns a token that
\* was not in the table
C15_CollisionRetried ==
    (last.op = "issue" /\ last.err = "collision") => last.ret.kind = "token"

\* C16: a cleanup tick removes a consumed row exactly when the delete was
\* answered and the row's expires_at is before now; a consumed row whose
\* expires_at has not passed is never removed
C16_ConsumedSweptOnExpiry ==
    [][last'.op = "cleanup"
       => \A r \in auth_tokens :
             r.used_at # Null
             => (r \notin auth_tokens'
                    <=> (last'.err = "none" /\ r.expires_at < now))]_vars

\* a tick has removed the row of a redeemed token and kept a consumed row
\* that has not expired
C16_Witness ==
    /\ last.op = "cleanup" /\ last.err = "none"
    /\ \E t \in Tokens : wins[t] > 0 /\ RowsOf(t) = {}
    /\ \E r \in auth_tokens : r.used_at # Null /\ r.expires_at >= now

\* C16 as written: no cleanup tick removes a row whose used_at is set
C16_ConsumedNeverSwept ==
    [][last'.op = "cleanup"
       => \A r \in auth_tokens : r.used_at # Null => r \in auth_tokens']_vars

\* C17: a pending row whose expires_at is after now is still in the table,
\* unchanged, after any step, unless the step is the return of a successful
\* verify_and_consume_token call on the row's own token, which marks it
C17_NoEarlyInvalidation ==
    [][\A r \in auth_tokens :
          (r.used_at = Null /\ r.expires_at > now)
          => \/ r \in auth_tokens'
             \/ /\ last'.op = "verify"
                /\ last'.token = r.token
                /\ last'.purpose = r.purpose
                /\ last'.ret.valid
                /\ [r EXCEPT !.used_at = <<last'.at>>] \in auth_tokens']_vars

\* a cleanup tick that deleted rows has left a pending, unexpired row, and
\* another token has been redeemed
C17_Witness ==
    /\ last.op = "cleanup" /\ last.err = "none" /\ last.deleted_count >= 1
    /\ \E r \in auth_tokens : r.used_at = Null /\ r.expires_at > now
    /\ \E t \in Tokens : wins[t] > 0

\* C18: a create_auth_token call that returns a token has added one row,
\* under a token no row had: the subject as a string, the purpose, expires_at
\* = now + the lifetime, used_at null; every row there before is unchanged
C18_IssueAddsOne ==
    [][(last'.op = "issue" /\ last'.ret.kind = "token")
       => /\ RowsOf(last'.ret.token) = {}
          /\ auth_tokens' = auth_tokens \cup
                {[token |-> last'.ret.token,
                  user_id |-> IF last'.user_id = <<"int", 7>>
                              THEN <<"str", "7">> ELSE last'.user_id,
                  purpose |-> last'.purpose,
                  expires_at |-> now + last'.ttl,
                  used_at |-> Null]}]_vars

\* a token has been issued for the integer subject while the table held the
\* consumed row of another token
C18_Witness ==
    /\ last.op = "issue" /\ last.ret.kind = "token"
    /\ last.user_id = <<"int", 7>>
    /\ \E r \in auth_tokens : r.token # last.ret.token /\ r.used_at # Null

\* C19: a verify_and_consume_token call that returns Invalid, whatever the
\* reason (no such row, wrong purpose, expired, used, a request that
\* failed), leaves every row of the table as it was
C19_InvalidChangesNothing ==
    [][(last'.op = "verify" /\ ~last'.ret.valid)
       => auth_tokens' = auth_tokens]_vars

\* a call was rejected, for a wrong purpose or an update that raised, while
\* its token's row is pending and unexpired, so the right call can follow
C19_Witness ==
    /\ Verified /\ ~last.ret.valid
    /\ last.err \in {"none", "update"}
    /\ \E r \in RowsOf(last.token) :
          /\ r.used_at = Null /\ r.expires_at > now
          /\ (last.err = "none" => r.purpose # last.purpose)

\* C20: when a verify_and_consume_token call returns success, the row of its
\* token is in the table with used_at set
C20_SuccessMarksRow ==
    (Verified /\ last.ret.valid)
        => \E r \in RowsOf(last.token) : r.used_at # Null

\* C21: the used_at of every row that has one is before the row's expires_at
C21_UsedBeforeExpiry ==
    \A r \in auth_tokens : r.used_at # Null => r.used_at[1] < r.expires_at

\* the second of two racing calls has returned success after the token
\* expired; its update has written the current_time it read before the
\* expiry over the used_at of the first
C21_Witness ==
    /\ Verified /\ last.ret.valid
    /\ wins[last.token] = 2
    /\ last.at < now
    /\ \E r \in RowsOf(last.token) :
          r.used_at = <<last.at>> /\ r.expires_at <= now

\* C22: a process has at most one cleanup thread, and has one only when
\* app.py was run directly; a process that serves the app imported by
\* index.py never runs a cleanup tick; a thread that is started sleeps one
\* full period first, and a tick runs only once the current sleep has
\* ended, so the first tick is one period after the start or later
C22_SweeperStart ==
    /\ (wake = NoWorker \/ wake = <<now + CleanupPeriod>>)
    /\ [](Len(wake) <= 1 /\ (wake # NoWorker <=> mode = "main"))
    /\ [](mode = "wsgi" => last.op # "cleanup")
    /\ [][last'.op = "cleanup" => (wake # NoWorker /\ wake[1] <= now)]_vars
    /\ [][wake' # wake => wake' = <<now + CleanupPeriod>>]_vars

\* a tick has run one period after the process began and has deleted a
\* row; its thread sleeps one period more
C22_Witness ==
    /\ last.op = "cleanup"
    /\ mode = "main"
    /\ wake = <<now + CleanupPeriod>>
    /\ now = CleanupPeriod
    /\ last.deleted_count >= 1

====
